---- MODULE Spec2Model ----
(***************************************************************************)
(* Calculator (src/python_tests/calculator/__init__.py) and the property   *)
(* tests that drive it (src/python_tests/test_calculator.py).              *)
(*                                                                         *)
(* Calculator has no fields: its four static methods check the types of    *)
(* their two arguments with isinstance and then apply Python's binary      *)
(* operators +, -, *, /.  What the methods do is therefore decided by the  *)
(* semantics of those operators on bool, int, float and complex, which is  *)
(* modelled here:                                                          *)
(*   - int is unbounded (no wrap-around);                                  *)
(*   - float is an IEEE 754 binary format with round-to-nearest-even,      *)
(*     subnormals, signed zeros, two infinities and NaN.  CPython uses     *)
(*     binary64 (53 significant bits, exponents -1022..1023); the model    *)
(*     keeps the format and shrinks its two parameters to Precision and    *)
(*     MaxExp so that every value of the format can be enumerated;         *)
(*   - complex is a pair of floats, with the formulas of CPython 3.11 for   *)
(*     product and quotient, every operation in them rounded on its own    *)
(*     (no fused multiply-add);                                            *)
(*   - an int meeting a float or a complex is converted to float first,    *)
(*     which raises OverflowError when it is out of the float range.       *)
(* The state is that of a caller: the last call (or property test) made,   *)
(* its arguments and what came back.                                       *)
(***************************************************************************)
EXTENDS Integers, Sequences, FiniteSets, TLC

\* Significant bits of a float (53 in binary64).
Precision == 3

\* Largest exponent of a finite float (1023 in binary64).
MaxExp == 2

\* ints passed to the calculator range over -MaxInt .. MaxInt.
MaxInt == 9

\* Smallest exponent of a normal float, as IEEE 754 fixes it.
MinExp == 1 - MaxExp

RECURSIVE Pow2(_)
Pow2(k) == IF k <= 0 THEN 1 ELSE 2 * Pow2(k - 1)

\* Finite float magnitudes are counted in units of the smallest subnormal,
\* 2^(MinExp - Precision + 1); Scale is the number of units in 1.0.
Scale == Pow2(Precision - 1 - MinExp)

\* The largest finite float, in units: (2^Precision - 1) * 2^(MaxExp - MinExp).
MaxMag == (Pow2(Precision) - 1) * Pow2(MaxExp - MinExp)

Abs(i) == IF i < 0 THEN -i ELSE i

(***************************************************************************)
(* Floats.  k is "fin", "inf" or "nan"; s is the sign bit; n the magnitude *)
(* of a finite float in units.                                             *)
(***************************************************************************)
Fin(s, n) == [k |-> "fin", s |-> s, n |-> n]
Inf(s) == [k |-> "inf", s |-> s, n |-> 0]
NaN == [k |-> "nan", s |-> 0, n |-> 0]
PZero == Fin(0, 0)

IsNaN(x) == x.k = "nan"
IsInf(x) == x.k = "inf"
IsFin(x) == x.k = "fin"
IsZero(x) == x.k = "fin" /\ x.n = 0
Xor(s, t) == IF s = t THEN 0 ELSE 1

\* The exponent of the binade of num/den: the least k >= 0 with
\* num/den < 2^(Precision + k).
RECURSIVE BinadeOf(_, _, _)
BinadeOf(num, den, k) ==
    IF num < den * Pow2(Precision + k) THEN k ELSE BinadeOf(num, den, k + 1)

\* Round-to-nearest, ties-to-even, of the exact magnitude num/den (in units)
\* to Precision significant bits, the exponent unbounded above.
RoundMag(num, den) ==
    LET k == BinadeOf(num, den, 0)
        d == den * Pow2(k)
        q == num \div d
        r == num % d
        up == (2 * r > d) \/ (2 * r = d /\ q % 2 = 1)
    IN  (IF up THEN q + 1 ELSE q) * Pow2(k)

\* The float nearest to (-1)^s * num/den: overflow gives an infinity.
FRound(s, num, den) ==
    LET m == RoundMag(num, den)
    IN  IF m > MaxMag THEN Inf(s) ELSE Fin(s, m)

\* n units is the magnitude of a float.
Representable(n) == n <= MaxMag /\ RoundMag(n, 1) = n

Signed(x) == IF x.s = 1 THEN -x.n ELSE x.n

FNeg(x) == IF IsNaN(x) THEN NaN ELSE [x EXCEPT !.s = 1 - x.s]

FAbs(x) == IF IsNaN(x) THEN NaN ELSE [x EXCEPT !.s = 0]

FAdd(x, y) ==
    IF IsNaN(x) \/ IsNaN(y) THEN NaN
    ELSE IF IsInf(x) /\ IsInf(y) THEN (IF x.s = y.s THEN x ELSE NaN)
    ELSE IF IsInf(x) THEN x
    ELSE IF IsInf(y) THEN y
    ELSE LET t == Signed(x) + Signed(y)
         IN  IF t = 0 THEN Fin(IF x.s = y.s THEN x.s ELSE 0, 0)
             ELSE FRound(IF t < 0 THEN 1 ELSE 0, Abs(t), 1)

FSub(x, y) == FAdd(x, FNeg(y))

FMul(x, y) ==
    IF IsNaN(x) \/ IsNaN(y) THEN NaN
    ELSE IF (IsInf(x) /\ IsZero(y)) \/ (IsZero(x) /\ IsInf(y)) THEN NaN
    ELSE IF IsInf(x) \/ IsInf(y) THEN Inf(Xor(x.s, y.s))
    ELSE FRound(Xor(x.s, y.s), x.n * y.n, Scale)

\* The C quotient x / y of two doubles (no trap on a zero divisor).
FDiv(x, y) ==
    IF IsNaN(x) \/ IsNaN(y) THEN NaN
    ELSE IF IsInf(x) THEN (IF IsInf(y) THEN NaN ELSE Inf(Xor(x.s, y.s)))
    ELSE IF IsInf(y) THEN Fin(Xor(x.s, y.s), 0)
    ELSE IF IsZero(y) THEN (IF IsZero(x) THEN NaN ELSE Inf(Xor(x.s, y.s)))
    ELSE FRound(Xor(x.s, y.s), x.n * Scale, y.n)

\* x == y, x < y and x >= y on doubles: every comparison with NaN is false.
FEq(x, y) ==
    /\ ~IsNaN(x)
    /\ ~IsNaN(y)
    /\ \/ (IsFin(x) /\ IsFin(y) /\ Signed(x) = Signed(y))
       \/ (IsInf(x) /\ IsInf(y) /\ x.s = y.s)

FLt(x, y) ==
    /\ ~IsNaN(x)
    /\ ~IsNaN(y)
    /\ ~FEq(x, y)
    /\ \/ (IsInf(x) /\ x.s = 1)
       \/ (IsInf(y) /\ y.s = 0)
       \/ (IsFin(x) /\ IsFin(y) /\ Signed(x) < Signed(y))

FGe(x, y) == ~IsNaN(x) /\ ~IsNaN(y) /\ ~FLt(x, y)

(***************************************************************************)
(* Python values.  t is the type; i the value of an int or bool (and the   *)
(* tag of a non-number); re and im the float, or the two parts of a        *)
(* complex.                                                                *)
(***************************************************************************)
IntV(i) == [t |-> "int", i |-> i, re |-> PZero, im |-> PZero]
BoolV(i) == [t |-> "bool", i |-> i, re |-> PZero, im |-> PZero]
FloatV(x) == [t |-> "float", i |-> 0, re |-> x, im |-> PZero]
ComplexV(x, y) == [t |-> "complex", i |-> 0, re |-> x, im |-> y]
StrV(i) == [t |-> "str", i |-> i, re |-> PZero, im |-> PZero]
ListV(i) == [t |-> "list", i |-> i, re |-> PZero, im |-> PZero]
DictV == [t |-> "dict", i |-> 0, re |-> PZero, im |-> PZero]
NoneV == [t |-> "NoneType", i |-> 0, re |-> PZero, im |-> PZero]

\* What a call does: return a value or raise an exception with a message.
Return(v) == [kind |-> "return", exc |-> "", msg |-> "", val |-> v]
Raise(e, m) == [kind |-> "raise", exc |-> e, msg |-> m, val |-> NoneV]
Returned(o) == o.kind = "return"
Raised(o, e) == o.kind = "raise" /\ o.exc = e

IsIntLike(v) == v.t \in {"int", "bool"}
IsComplex(v) == v.t = "complex"

\* isinstance(v, (int, float, complex)); bool is a subclass of int.
IsNumber(v) == v.t \in {"int", "bool", "float", "complex"}

\* PyLong_AsDouble: the nearest float, OverflowError beyond the largest.
IntOverflows(i) == RoundMag(Abs(i) * Scale, 1) > MaxMag
IntToFloat(i) == Fin(IF i < 0 THEN 1 ELSE 0, RoundMag(Abs(i) * Scale, 1))

\* The operand of a float or complex operation, as a double (pair).
ConvOverflows(v) == IsIntLike(v) /\ IntOverflows(v.i)
RealPart(v) == IF IsIntLike(v) THEN IntToFloat(v.i) ELSE v.re
ImagPart(v) == IF IsComplex(v) THEN v.im ELSE PZero
OverflowConv == Raise("OverflowError", "int too large to convert to float")

\* _Py_c_prod
CProd(ar, ai, br, bi) ==
    ComplexV(FSub(FMul(ar, br), FMul(ai, bi)), FAdd(FMul(ar, bi), FMul(ai, br)))

\* _Py_c_quot; the errno = EDOM of a zero divisor becomes ZeroDivisionError.
CQuot(ar, ai, br, bi) ==
    LET absr == FAbs(br)
        absi == FAbs(bi)
    IN  IF FGe(absr, absi)
        THEN IF IsZero(absr)
             THEN Raise("ZeroDivisionError", "complex division by zero")
             ELSE LET ratio == FDiv(bi, br)
                      denom == FAdd(br, FMul(bi, ratio))
                  IN  Return(ComplexV(FDiv(FAdd(ar, FMul(ai, ratio)), denom),
                                      FDiv(FSub(ai, FMul(ar, ratio)), denom)))
        ELSE IF FGe(absi, absr)
        THEN LET ratio == FDiv(br, bi)
                 denom == FAdd(FMul(br, ratio), bi)
             IN  Return(ComplexV(FDiv(FAdd(FMul(ar, ratio), ai), denom),
                                 FDiv(FSub(FMul(ai, ratio), ar), denom)))
        ELSE Return(ComplexV(NaN, NaN))

\* a + b
PyAdd(a, b) ==
    IF IsIntLike(a) /\ IsIntLike(b) THEN Return(IntV(a.i + b.i))
    ELSE IF ConvOverflows(a) \/ ConvOverflows(b) THEN OverflowConv
    ELSE IF IsComplex(a) \/ IsComplex(b)
    THEN Return(ComplexV(FAdd(RealPart(a), RealPart(b)),
                         FAdd(ImagPart(a), ImagPart(b))))
    ELSE Return(FloatV(FAdd(RealPart(a), RealPart(b))))

\* a - b
PySub(a, b) ==
    IF IsIntLike(a) /\ IsIntLike(b) THEN Return(IntV(a.i - b.i))
    ELSE IF ConvOverflows(a) \/ ConvOverflows(b) THEN OverflowConv
    ELSE IF IsComplex(a) \/ IsComplex(b)
    THEN Return(ComplexV(FSub(RealPart(a), RealPart(b)),
                         FSub(ImagPart(a), ImagPart(b))))
    ELSE Return(FloatV(FSub(RealPart(a), RealPart(b))))

\* a * b
PyMul(a, b) ==
    IF IsIntLike(a) /\ IsIntLike(b) THEN Return(IntV(a.i * b.i))
    ELSE IF ConvOverflows(a) \/ ConvOverflows(b) THEN OverflowConv
    ELSE IF IsComplex(a) \/ IsComplex(b)
    THEN Return(CProd(RealPart(a), ImagPart(a), RealPart(b), ImagPart(b)))
    ELSE Return(FloatV(FMul(RealPart(a), RealPart(b))))

\* int / int (long_true_divide): the correctly rounded quotient.
IntTrueDiv(i, j) ==
    LET neg == IF (i < 0) = (j < 0) THEN 0 ELSE 1
        m == RoundMag(Abs(i) * Scale, Abs(j))
    IN  IF j = 0 THEN Raise("ZeroDivisionError", "division by zero")
        ELSE IF m > MaxMag
        THEN Raise("OverflowError", "integer division result too large for a float")
        ELSE Return(FloatV(Fin(neg, m)))

\* a / b
PyTrueDiv(a, b) ==
    IF IsIntLike(a) /\ IsIntLike(b) THEN IntTrueDiv(a.i, b.i)
    ELSE IF ConvOverflows(a) \/ ConvOverflows(b) THEN OverflowConv
    ELSE IF IsComplex(a) \/ IsComplex(b)
    THEN CQuot(RealPart(a), ImagPart(a), RealPart(b), ImagPart(b))
    ELSE IF IsZero(RealPart(b))
    THEN Raise("ZeroDivisionError", "float division by zero")
    ELSE Return(FloatV(FDiv(RealPart(a), RealPart(b))))

\* -a
PyNeg(a) ==
    IF IsIntLike(a) THEN IntV(-a.i)
    ELSE IF IsComplex(a) THEN ComplexV(FNeg(a.re), FNeg(a.im))
    ELSE FloatV(FNeg(a.re))

\* A float against an int, compared exactly (no conversion of the int).
FloatEqInt(x, i) == IsFin(x) /\ Signed(x) = i * Scale

\* a == b on numbers.
PyEq(a, b) ==
    IF ~IsNumber(a) \/ ~IsNumber(b) THEN FALSE
    ELSE IF IsIntLike(a) /\ IsIntLike(b) THEN a.i = b.i
    ELSE IF IsComplex(a) /\ IsComplex(b) THEN FEq(a.re, b.re) /\ FEq(a.im, b.im)
    ELSE IF IsComplex(a)
    THEN FEq(a.im, PZero)
         /\ (IF IsIntLike(b) THEN FloatEqInt(a.re, b.i) ELSE FEq(a.re, b.re))
    ELSE IF IsComplex(b)
    THEN FEq(b.im, PZero)
         /\ (IF IsIntLike(a) THEN FloatEqInt(b.re, a.i) ELSE FEq(b.re, a.re))
    ELSE IF IsIntLike(a) THEN FloatEqInt(b.re, a.i)
    ELSE IF IsIntLike(b) THEN FloatEqInt(a.re, b.i)
    ELSE FEq(a.re, b.re)

(***************************************************************************)
(* Calculator                                                              *)
(***************************************************************************)
\* Mutation: only the first argument is checked.
BothNumbers_FirstOnly(a, b) == IsNumber(a)

BothNumbers(a, b) == IsNumber(a) /\ IsNumber(b)

InvalidOperand == Raise("TypeError", "Both inputs must be numbers")

\* Mutations: a - b, and a + a, returned for a + b.
add_Minus(a, b) == IF ~BothNumbers(a, b) THEN InvalidOperand ELSE PySub(a, b)

add_Twice(a, b) == IF ~BothNumbers(a, b) THEN InvalidOperand ELSE PyAdd(a, a)

add(a, b) == IF ~BothNumbers(a, b) THEN InvalidOperand ELSE PyAdd(a, b)

\* Mutation: a + b returned for a - b.
subtract_Plus(a, b) == IF ~BothNumbers(a, b) THEN InvalidOperand ELSE PyAdd(a, b)

subtract(a, b) == IF ~BothNumbers(a, b) THEN InvalidOperand ELSE PySub(a, b)

\* Mutations: a + b, and a * a, returned for a * b.
multiply_Plus(a, b) == IF ~BothNumbers(a, b) THEN InvalidOperand ELSE PyAdd(a, b)

multiply_Square(a, b) == IF ~BothNumbers(a, b) THEN InvalidOperand ELSE PyMul(a, a)

multiply(a, b) == IF ~BothNumbers(a, b) THEN InvalidOperand ELSE PyMul(a, b)

\* Mutation: the test of b against zero is left out.
divide_NoZeroCheck(a, b) ==
    IF ~BothNumbers(a, b) THEN InvalidOperand ELSE PyTrueDiv(a, b)

divide(a, b) ==
    IF ~BothNumbers(a, b) THEN InvalidOperand
    ELSE IF PyEq(b, IntV(0)) THEN Raise("ZeroDivisionError", "Cannot divide by zero")
    ELSE PyTrueDiv(a, b)

(***************************************************************************)
(* The assertions of the tests                                             *)
(***************************************************************************)
\* places=7 of the assertAlmostEqual calls.
Places == 7

RECURSIVE Pow10(_)
Pow10(k) == IF k <= 0 THEN 1 ELSE 10 * Pow10(k - 1)

\* The largest magnitude, in units, that round(., Places) takes to zero:
\* half of 10^-Places.  In binary64 this lies below the spacing of the floats
\* from 2^29 upwards; in a format of Precision bits it lies below the spacing
\* of all of them, so that two floats are within it only if they are equal.
Tolerance == Scale \div (2 * Pow10(Places))

\* round(abs(d), places) == 0.  The abs of a complex is its hypotenuse,
\* compared here by its exact square.
RoundsToZero(d) ==
    IF IsIntLike(d) THEN d.i = 0
    ELSE IF IsComplex(d)
    THEN IsFin(d.re) /\ IsFin(d.im)
         /\ d.re.n <= Tolerance /\ d.im.n <= Tolerance
         /\ d.re.n * d.re.n + d.im.n * d.im.n <= Tolerance * Tolerance
    ELSE IsFin(d.re) /\ d.re.n <= Tolerance

\* The verdict of a test body that made Calculator calls with outcomes o1
\* and o2 and then compares them: "error" when a call raised.
assertEqual(o1, o2) ==
    IF ~Returned(o1) \/ ~Returned(o2) THEN "error"
    ELSE IF PyEq(o1.val, o2.val) THEN "pass" ELSE "fail"

assertAlmostEqual(o1, o2) ==
    IF ~Returned(o1) \/ ~Returned(o2) THEN "error"
    ELSE IF PyEq(o1.val, o2.val) THEN "pass"
    ELSE LET d == PySub(o1.val, o2.val)
         IN  IF ~Returned(d) THEN "error"
             ELSE IF RoundsToZero(d.val) THEN "pass" ELSE "fail"

\* The outcome o of a call f(x, y) whose arguments are themselves results of
\* calls, with outcomes ox and oy: the arguments are evaluated left to right
\* and the first exception propagates, f not being called.
Nested(ox, oy, o) ==
    IF ~Returned(ox) THEN ox
    ELSE IF ~Returned(oy) THEN oy
    ELSE o

(***************************************************************************)
(* Arguments                                                               *)
(***************************************************************************)
Magnitudes == {n \in 0..MaxMag : Representable(n)}

Floats == {Fin(s, n) : s \in {0, 1}, n \in Magnitudes} \cup {Inf(0), Inf(1), NaN}

One == Fin(0, Scale)

\* The parts of the complex arguments.
Parts == {PZero, One, FNeg(One), Fin(0, MaxMag), Inf(0), NaN}

Numbers ==
    {IntV(i) : i \in -MaxInt..MaxInt}
        \cup {BoolV(0), BoolV(1)}
        \cup {FloatV(x) : x \in Floats}
        \cup {ComplexV(x, y) : x \in Parts, y \in Parts}

\* "5", "3", [1, 2], [], {} and None
NonNumbers == {StrV(5), StrV(3), ListV(2), ListV(0), DictV, NoneV}

Values == Numbers \cup NonNumbers

\* The arguments of the tests on three numbers.
Samples ==
    {IntV(i) : i \in {-MaxInt, -2, 0, 1, 3, MaxInt}}
        \cup {BoolV(1)}
        \cup {FloatV(x) : x \in {Fin(0, 1), Fin(0, Scale \div 2), One, FNeg(One),
                                 Fin(0, Scale + Scale \div Pow2(Precision - 1)),
                                 Fin(0, MaxMag \div 2), Fin(1, MaxMag),
                                 Fin(0, MaxMag), Inf(0), NaN}}
        \cup {ComplexV(One, One), ComplexV(PZero, FNeg(One))}

(***************************************************************************)
(* The caller                                                              *)
(***************************************************************************)
VARIABLES op, a, b, c, result1, result2, verdict

vars == <<op, a, b, c, result1, result2, verdict>>

Unset == [kind |-> "unset", exc |-> "", msg |-> "", val |-> NoneV]

Init ==
    /\ op = "none"
    /\ a = NoneV
    /\ b = NoneV
    /\ c = NoneV
    /\ result1 = Unset
    /\ result2 = Unset
    /\ verdict = "none"

\* The caller has no call or test case in hand.
Idle == op = "none"

\* One call of a method, on any two arguments.
Call(name, x, y, o) ==
    /\ op' = name
    /\ a' = x
    /\ b' = y
    /\ c' = NoneV
    /\ result1' = o
    /\ result2' = Unset
    /\ verdict' = "none"

CallAdd == Idle /\ \E x \in Values, y \in Values : Call("add", x, y, add(x, y))

CallSubtract == Idle /\ \E x \in Values, y \in Values : Call("subtract", x, y, subtract(x, y))

CallMultiply == Idle /\ \E x \in Values, y \in Values : Call("multiply", x, y, multiply(x, y))

CallDivide == Idle /\ \E x \in Values, y \in Values : Call("divide", x, y, divide(x, y))

\* One case of a test: its arguments, the two results it compares, and what
\* its assertion says.
Case(name, x, y, z, o1, o2, v) ==
    /\ op' = name
    /\ a' = x
    /\ b' = y
    /\ c' = z
    /\ result1' = o1
    /\ result2' = o2
    /\ verdict' = v

TestCommutative ==
    /\ Idle
    /\ \E x \in Numbers, y \in Numbers :
        LET o1 == add(x, y)
            o2 == add(y, x)
        IN  Case("commutative", x, y, NoneV, o1, o2, assertEqual(o1, o2))

TestAssociative ==
    /\ Idle
    /\ \E x \in Samples, y \in Samples, z \in Samples :
        LET yz == add(y, z)
            xy == add(x, y)
            o1 == Nested(Return(x), yz, add(x, yz.val))
            o2 == Nested(xy, Return(z), add(xy.val, z))
        IN  Case("associative", x, y, z, o1, o2, assertAlmostEqual(o1, o2))

TestDistributive ==
    /\ Idle
    /\ \E x \in Samples, y \in Samples, z \in Samples :
        LET yz == add(y, z)
            xy == multiply(x, y)
            xz == multiply(x, z)
            o1 == Nested(Return(x), yz, multiply(x, yz.val))
            o2 == Nested(xy, xz, add(xy.val, xz.val))
        IN  Case("distributive", x, y, z, o1, o2, assertAlmostEqual(o1, o2))

\* add(value, 0) and add(0, value), each compared with value.
TestIdentityAdd ==
    /\ Idle
    /\ \E x \in Numbers :
        LET o1 == add(x, IntV(0))
            o2 == add(IntV(0), x)
            v1 == assertEqual(o1, Return(x))
            v2 == assertEqual(o2, Return(x))
        IN  Case("identity_add", x, IntV(0), NoneV, o1, o2,
                 IF v1 = "pass" THEN v2 ELSE v1)

\* multiply(value, 1) and multiply(1, value), each compared with value.
TestIdentityMultiply ==
    /\ Idle
    /\ \E x \in Numbers :
        LET o1 == multiply(x, IntV(1))
            o2 == multiply(IntV(1), x)
            v1 == assertEqual(o1, Return(x))
            v2 == assertEqual(o2, Return(x))
        IN  Case("identity_multiply", x, IntV(1), NoneV, o1, o2,
                 IF v1 = "pass" THEN v2 ELSE v1)

\* add(value, -value), compared with 0.
TestInverse ==
    /\ Idle
    /\ \E x \in Numbers :
        LET o1 == add(x, PyNeg(x))
        IN  Case("inverse", x, PyNeg(x), NoneV, o1, Return(IntV(0)),
                 assertAlmostEqual(o1, Return(IntV(0))))

\* subtract(value, value), compared with 0.
TestSubtractSame ==
    /\ Idle
    /\ \E x \in Numbers :
        LET o1 == subtract(x, x)
        IN  Case("subtract_same", x, x, NoneV, o1, Return(IntV(0)),
                 assertEqual(o1, Return(IntV(0))))

\* The caller drops what it got and goes on to its next call or case:
\* Calculator keeps nothing from one call to the next.
Forget ==
    /\ ~Idle
    /\ op' = "none"
    /\ a' = NoneV
    /\ b' = NoneV
    /\ c' = NoneV
    /\ result1' = Unset
    /\ result2' = Unset
    /\ verdict' = "none"

Next ==
    \/ CallAdd
    \/ CallSubtract
    \/ CallMultiply
    \/ CallDivide
    \/ TestCommutative
    \/ TestAssociative
    \/ TestDistributive
    \/ TestIdentityAdd
    \/ TestIdentityMultiply
    \/ TestInverse
    \/ TestSubtractSame
    \/ Forget

Spec == Init /\ [][Next]_vars

(***************************************************************************)
(* Well-formedness of the state                                            *)
(***************************************************************************)
IsFloat(x) ==
    /\ x.k \in {"fin", "inf", "nan"}
    /\ x.s \in {0, 1}
    /\ IF x.k = "fin" THEN Representable(x.n) ELSE x.n = 0
    /\ x.k = "nan" => x.s = 0

IsValue(v) ==
    /\ IsFloat(v.re)
    /\ IsFloat(v.im)
    /\ v.t \in {"int", "bool", "float", "complex", "str", "list", "dict", "NoneType"}
    /\ v.t = "bool" => v.i \in {0, 1}
    /\ v.t # "complex" => v.im = PZero
    /\ v.t \notin {"float", "complex"} => v.re = PZero
    /\ v.t \in {"float", "complex"} => v.i = 0

IsOutcome(o) ==
    /\ o.kind \in {"return", "raise", "unset"}
    /\ IsValue(o.val)
    /\ o.kind # "return" => o.val = NoneV
    /\ o.kind = "raise" <=> o.exc # ""

TypeOK ==
    /\ IsValue(a)
    /\ IsValue(b)
    /\ IsValue(c)
    /\ IsOutcome(result1)
    /\ IsOutcome(result2)
    /\ verdict \in {"none", "pass", "fail", "error"}

(***************************************************************************)
(* Vocabulary of the properties                                            *)
(***************************************************************************)
IsCall == op \in {"add", "subtract", "multiply", "divide"}

\* A NaN, or a complex with a NaN part; likewise an infinity.
HasNaN(v) == IsNaN(v.re) \/ IsNaN(v.im)
HasInf(v) == IsInf(v.re) \/ IsInf(v.im)

\* A number with no NaN and no infinity in it.
IsFinite(v) == IsNumber(v) /\ ~HasNaN(v) /\ ~HasInf(v)

AllIntLike(x, y, z) == IsIntLike(x) /\ IsIntLike(y) /\ IsIntLike(z)

\* A bool, an int or a finite float, and its exact value in units.
IsFiniteReal(v) == IsIntLike(v) \/ (v.t = "float" /\ IsFin(v.re))
Units(v) == IF IsIntLike(v) THEN v.i * Scale ELSE Signed(v.re)

\* The exact number n units is a float.
ExactFloat(n) == Representable(Abs(n))

\* The exact product of n and m units is a float.
ExactProduct(n, m) == (n * m) % Scale = 0 /\ ExactFloat((n * m) \div Scale)

\* x, y, z and the sums x + y, y + z and x + y + z are floats, exactly.
ExactSums(x, y, z) ==
    /\ IsFiniteReal(x) /\ IsFiniteReal(y) /\ IsFiniteReal(z)
    /\ ExactFloat(Units(x)) /\ ExactFloat(Units(y)) /\ ExactFloat(Units(z))
    /\ ExactFloat(Units(x) + Units(y))
    /\ ExactFloat(Units(y) + Units(z))
    /\ ExactFloat(Units(x) + Units(y) + Units(z))

\* x, y, z, the sum y + z and the products x * y, x * z and x * (y + z) are
\* floats, exactly.
ExactProducts(x, y, z) ==
    /\ IsFiniteReal(x) /\ IsFiniteReal(y) /\ IsFiniteReal(z)
    /\ ExactFloat(Units(x)) /\ ExactFloat(Units(y)) /\ ExactFloat(Units(z))
    /\ ExactFloat(Units(y) + Units(z))
    /\ ExactProduct(Units(x), Units(y))
    /\ ExactProduct(Units(x), Units(z))
    /\ ExactProduct(Units(x), Units(y) + Units(z))

\* What Python's own operator gives for the call in hand.
Operator ==
    CASE op = "add" -> PyAdd(a, b)
      [] op = "subtract" -> PySub(a, b)
      [] op = "multiply" -> PyMul(a, b)
      [] op = "divide" -> PyTrueDiv(a, b)
      [] OTHER -> Unset

(***************************************************************************)
(* Properties                                                              *)
(***************************************************************************)

\* C1: divide on two numbers whose second is equal to zero (0, False, 0.0,
\* -0.0 or 0j) returns nothing and raises ZeroDivisionError with the message
\* "Cannot divide by zero", whatever number the first is (NaN and the
\* infinities, and the ints too large for a float, included).
C1_DivideByZero ==
    (op = "divide" /\ BothNumbers(a, b) /\ PyEq(b, IntV(0)))
        => result1 = Raise("ZeroDivisionError", "Cannot divide by zero")

C1_Witness ==
    /\ op = "divide"
    /\ a = FloatV(NaN)
    /\ b = FloatV(Fin(1, 0))
    /\ Raised(result1, "ZeroDivisionError")

\* C2: a call of add, subtract, multiply or divide raises TypeError exactly
\* when one of its two arguments is not a bool, int, float or complex,
\* whichever argument it is and whatever the other one is.
C2_InvalidOperand ==
    IsCall => (Raised(result1, "TypeError") <=> (~IsNumber(a) \/ ~IsNumber(b)))

C2_Witness ==
    /\ op = "divide"
    /\ a.t = "str"
    /\ b = IntV(0)
    /\ result1 = InvalidOperand

\* C3: on two numbers (the second not zero for divide) a call returns, and
\* returns what the operator +, -, * or / gives.
C3_ReturnsResult ==
    (IsCall /\ BothNumbers(a, b) /\ (op = "divide" => ~PyEq(b, IntV(0))))
        => (Returned(result1) /\ result1 = Operator)

\* C4: a call ends in a number returned, in TypeError, or (divide only) in
\* ZeroDivisionError, and in nothing else.
C4_ThreeOutcomes ==
    IsCall =>
        \/ Returned(result1) /\ IsNumber(result1.val)
        \/ Raised(result1, "TypeError")
        \/ Raised(result1, "ZeroDivisionError") /\ op = "divide"

\* C6 as stated: whenever add(a, b) and add(b, a) both return, the two
\* results are equal (==).
C6_Commutative ==
    (op = "commutative" /\ Returned(result1) /\ Returned(result2))
        => verdict = "pass"

\* C6, amended: add(a, b) and add(b, a) end the same way, in the same error
\* or in the same value, and the two values are equal (==) unless the value
\* is, or has a part that is, NaN.
C6_CommutativeAmended ==
    op = "commutative" =>
        /\ result1 = result2
        /\ (Returned(result1) /\ ~HasNaN(result1.val)) => verdict = "pass"

C6_Witness ==
    /\ op = "commutative"
    /\ a = IntV(3)
    /\ b.t = "float"
    /\ b.re = Fin(1, 1)
    /\ Returned(result1)
    /\ verdict = "pass"

\* C7 as stated, for the operands most favourable to it: a, b and c finite,
\* multiply(a, add(b, c)) and add(multiply(a, b), multiply(a, c)) both
\* returning finite results.  The two results are equal to within the
\* tolerance of assertAlmostEqual.
C7_Distributive ==
    (/\ op = "distributive"
     /\ IsFinite(a) /\ IsFinite(b) /\ IsFinite(c)
     /\ Returned(result1) /\ IsFinite(result1.val)
     /\ Returned(result2) /\ IsFinite(result2.val))
        => verdict = "pass"

\* C7, amended: the two results are equal when a, b and c are ints or bools,
\* and when a, b, c are bools, ints or floats such that a, b, c, b + c,
\* a * b, a * c and a * (b + c) are all floats exactly.
C7_DistributiveAmended ==
    (op = "distributive" /\ (AllIntLike(a, b, c) \/ ExactProducts(a, b, c)))
        => (verdict = "pass" /\ PyEq(result1.val, result2.val))

C7_Witness ==
    /\ op = "distributive"
    /\ a = FloatV(Fin(0, Scale \div 2))
    /\ b = IntV(1)
    /\ c = IntV(3)
    /\ ExactProducts(a, b, c)
    /\ verdict = "pass"

\* C8 as stated, for the operands most favourable to it: a, b and c finite,
\* add(a, add(b, c)) and add(add(a, b), c) both returning finite results.
\* The two results are equal to within the tolerance of assertAlmostEqual.
C8_Associative ==
    (/\ op = "associative"
     /\ IsFinite(a) /\ IsFinite(b) /\ IsFinite(c)
     /\ Returned(result1) /\ IsFinite(result1.val)
     /\ Returned(result2) /\ IsFinite(result2.val))
        => verdict = "pass"

\* C8, amended: the two results are equal when a, b and c are ints or bools,
\* and when a, b, c are bools, ints or floats such that a, b, c, a + b,
\* b + c and a + b + c are all floats exactly.
C8_AssociativeAmended ==
    (op = "associative" /\ (AllIntLike(a, b, c) \/ ExactSums(a, b, c)))
        => (verdict = "pass" /\ PyEq(result1.val, result2.val))

C8_Witness ==
    /\ op = "associative"
    /\ a = FloatV(Fin(0, Scale \div 2))
    /\ b = IntV(1)
    /\ c = FloatV(FNeg(One))
    /\ ExactSums(a, b, c)
    /\ verdict = "pass"

\* C9 as stated: add(a, 0) == a and add(0, a) == a, and multiply(a, 1) == a
\* and multiply(1, a) == a, for every number a.
C9_Identity ==
    op \in {"identity_add", "identity_multiply"} => verdict = "pass"

\* C9, amended: add(a, 0) == a and add(0, a) == a for every number a that
\* is not NaN and has no NaN part; multiply(a, 1) == a and
\* multiply(1, a) == a for every such a that is not a complex with an
\* infinite part.
C9_IdentityAmended ==
    /\ (op = "identity_add" /\ ~HasNaN(a)) => verdict = "pass"
    /\ (op = "identity_multiply" /\ ~HasNaN(a) /\ ~(IsComplex(a) /\ HasInf(a)))
           => verdict = "pass"

C9_Witness ==
    /\ op = "identity_multiply"
    /\ a = FloatV(Inf(1))
    /\ result1 = Return(a)
    /\ result2 = Return(a)
    /\ verdict = "pass"

\* C10 as stated: add(a, -a) and subtract(a, a) are equal to 0 for every
\* number a.
C10_Inverse ==
    op \in {"inverse", "subtract_same"} => verdict = "pass"

\* C10, amended: add(a, -a) and subtract(a, a) are equal to 0 for every
\* number a that is finite: not NaN, not an infinity, and with no such part.
C10_InverseAmended ==
    (op \in {"inverse", "subtract_same"} /\ IsFinite(a))
        => (verdict = "pass" /\ PyEq(result1.val, IntV(0)))

C10_Witness ==
    /\ op = "inverse"
    /\ a = FloatV(Fin(0, MaxMag))
    /\ b = FloatV(Fin(1, MaxMag))
    /\ result1 = Return(FloatV(PZero))
    /\ verdict = "pass"

====
